---------------------------- MODULE Spec2Model ----------------------------
(***************************************************************************)
(* Model of draw_cpu_cpp/src/main.cpp: calculate_cpu_load, the per-CPU     *)
(* Executor threads and calculate_one_slice.                               *)
(*                                                                         *)
(* Row values are C++ `float`s.  A float is modelled as a pair <<m, e>>    *)
(* standing for m * 2^e with a 24 bit significand (2^23 <= m < 2^24),      *)
(* <<0, 0>> for 0.0f and <<-1, 0>> for NaN; every operation rounds to      *)
(* nearest, ties to even, as IEEE-754 binary32 does.  Only non-negative    *)
(* values occur in the program.                                            *)
(***************************************************************************)
EXTENDS Integers, Sequences, FiniteSets, TLC

\* Largest time value of the explored inputs (trace duration, window size,
\* window step and the slice end points are drawn from ranges built on it).
MaxT == 3

\* The number of worker threads in the calls explored under fair scheduling
\* (CPU identifiers 0 and 1).
MaxWorkers == 2

\* `if (max_cpu_id > 32)` of calculate_cpu_load.
MaxCpuId == 32

(***************************************************************************)
(* Integer helpers.                                                        *)
(***************************************************************************)
Max(a, b) == IF a >= b THEN a ELSE b

Min(a, b) == IF a <= b THEN a ELSE b

\* C++ integer division truncates toward zero.
CDiv(a, b) ==
  IF a >= 0 THEN a \div b ELSE -((-a) \div b)

\* inline int64_t ceil_div(int64_t a, int64_t b)
ceil_div(a, b) == CDiv(a + b - 1, b)

(***************************************************************************)
(* binary32 arithmetic.                                                    *)
(***************************************************************************)
FZero == <<0, 0>>

FNaN == <<-1, 0>>

IsNaN(x) == x[1] < 0

RECURSIVE BitLen(_)
BitLen(n) == IF n = 0 THEN 0 ELSE 1 + BitLen(n \div 2)

\* n / d rounded to the nearest integer, ties to even (n >= 0, d > 0).
RoundDiv(n, d) ==
  LET q == n \div d
      r == n % d
  IN  IF 2 * r > d \/ (2 * r = d /\ q % 2 = 1) THEN q + 1 ELSE q

\* The float nearest to n * 2^e, for an integer 0 <= n < 2^31.
Normalize(n, e) ==
  IF n = 0 THEN FZero
  ELSE LET len == BitLen(n)
       IN  IF len <= 24 THEN <<n * 2^(24 - len), e - (24 - len)>>
           ELSE LET k == len - 24
                    m == RoundDiv(n, 2^k)
                IN  IF m = 2^24 THEN <<2^23, e + k + 1>> ELSE <<m, e + k>>

\* static_cast<float>(i), for 0 <= i < 2^31.
FromInt(i) == Normalize(i, 0)

\* x / static_cast<float>(d) for an integer 0 <= d < 128.
FDivInt(x, d) ==
  IF IsNaN(x) THEN FNaN
  ELSE IF d = 0 THEN FNaN  \* 0.0f / 0.0f; x / 0.0f with x > 0 does not occur
  ELSE IF x = FZero THEN FZero
  ELSE LET s == CHOOSE k \in 0..7 :
                  /\ x[1] * 2^k >= d * 2^23
                  /\ \A j \in 0..(k - 1) : x[1] * 2^j < d * 2^23
           m == RoundDiv(x[1] * 2^s, d)
       IN  IF m = 2^24 THEN <<2^23, x[2] - s + 1>> ELSE <<m, x[2] - s>>

\* x * 100.0f
FMul100(x) ==
  IF IsNaN(x) THEN FNaN ELSE Normalize(x[1] * 25, x[2] + 2)

\* x <= y on non-negative floats (false when either is NaN).
FLeq(x, y) ==
  /\ ~IsNaN(x)
  /\ ~IsNaN(y)
  /\ \/ x = FZero
     \/ /\ y # FZero
        /\ \/ x[2] < y[2]
           \/ x[2] = y[2] /\ x[1] <= y[1]

\* std::min(x, y): `(y < x) ? y : x`.
FMin(x, y) ==
  IF ~IsNaN(x) /\ ~IsNaN(y) /\ FLeq(y, x) /\ y # x THEN y ELSE x

\* x + y, rounded once: the sum is formed with three extra low bits, the last
\* of them sticky.
FAdd(x, y) ==
  IF IsNaN(x) \/ IsNaN(y) THEN FNaN
  ELSE IF x = FZero THEN y
  ELSE IF y = FZero THEN x
  ELSE LET hi == IF x[2] >= y[2] THEN x ELSE y
           lo == IF x[2] >= y[2] THEN y ELSE x
           d == hi[2] - lo[2]
       IN  IF d >= 26 THEN hi
           ELSE LET b == lo[1] * 8
                    bq == b \div 2^d
                    bs == IF b % 2^d # 0 /\ bq % 2 = 0 THEN bq + 1 ELSE bq
                IN  Normalize(hi[1] * 8 + bs, hi[2] - 3)


(***************************************************************************)
(* Program state.                                                          *)
(***************************************************************************)
VARIABLES
  slice_start_ns,     \* argument: sequence of slice starts
  slice_end_ns,       \* argument: sequence of slice ends
  ucpu_id,            \* argument: sequence of CPU identifiers
  trace_duration_ns,  \* argument
  window_size_ns,     \* argument
  window_step_ns,     \* argument
  g_detail,           \* static TraceDetail g_detail
  result,             \* the local `result` grid (sequence of rows of floats)
  executors,          \* the local vector of Executor objects
  pc,                 \* position of the calling thread in calculate_cpu_load
  i,                  \* loop counter of the calling thread (0-based, as in C++);
                      \* once pc = "crashed", the slices pushed by then
  ret,                \* the returned grid, once pc = "done"
  other               \* a second call in progress: its arguments, the
                      \* members of g_detail it has stored at line 182 and
                      \* its worker's position in calculate_one_slice

args == <<slice_start_ns, slice_end_ns, ucpu_id,
          trace_duration_ns, window_size_ns, window_step_ns>>

vars == <<slice_start_ns, slice_end_ns, ucpu_id,
          trace_duration_ns, window_size_ns, window_step_ns,
          g_detail, result, executors, pc, i, ret, other>>

(***************************************************************************)
(* calculate_one_slice.                                                    *)
(***************************************************************************)
\* Lines 65-73: overlap of [start_ns, end_ns) with window w; <= 0 when the
\* `continue` branch is taken.
WindowOverlap(start_ns, end_ns, w) ==
  LET window_start == w * g_detail.window_step_ns
      window_end == window_start + g_detail.window_size_ns
      overlap_start == Max(start_ns, window_start)
      overlap_end == Min(end_ns, window_end)
  IN  overlap_end - overlap_start

\* Mutant of SliceLoad: the quotient taken in int64 before the conversion.
SliceLoad_IntegerDivision(overlap) ==
  FromInt(CDiv(overlap, g_detail.window_size_ns) * 100)

\* Line 75: static_cast<float>(overlap) / g_detail.window_size_ns * 100.0f
SliceLoad(overlap) ==
  FMul100(FDivInt(FromInt(overlap), g_detail.window_size_ns))

\* Lines 64-76: the loop over w = i_start .. i_end on the buffer `row`
\* (row[w + 1] is result->at(w)).
\* result->at(w) throws std::out_of_range when w is no index of the buffer:
\* the loop is left with the buffer as it is.
RECURSIVE SliceLoop(_, _, _, _, _)
SliceLoop(w, i_end, start_ns, end_ns, row) ==
  IF w > i_end THEN row
  ELSE LET overlap == WindowOverlap(start_ns, end_ns, w)
       IN  IF overlap <= 0
             THEN SliceLoop(w + 1, i_end, start_ns, end_ns, row)
             ELSE IF w + 1 \notin DOMAIN row THEN row
             ELSE SliceLoop(w + 1, i_end, start_ns, end_ns,
                            [row EXCEPT ![w + 1] = FAdd(@, SliceLoad(overlap))])

\* Lines 42-43: the clamped end points.
ClampStart(start_ns) == Max(0, start_ns)

\* Mutant of ClampEnd: the end is not cut at the trace duration.
ClampEnd_Unclamped(end_ns) == end_ns

ClampEnd(end_ns) == Min(g_detail.trace_duration_ns, end_ns)

\* Lines 48-54 and 59 with ceil_div(start_ns - window_size_ns, window_step_ns).
FirstWindow_NoPlusOne(start_ns) ==
  LET i_start == IF start_ns < g_detail.window_size_ns THEN 0
                 ELSE ceil_div(start_ns - g_detail.window_size_ns,
                               g_detail.window_step_ns)
  IN  Max(0, i_start)

\* Lines 48-54 and 59.
FirstWindow(start_ns) ==
  LET i_start == IF start_ns < g_detail.window_size_ns THEN 0
                 ELSE ceil_div(start_ns - g_detail.window_size_ns + 1,
                               g_detail.window_step_ns)
  IN  Max(0, i_start)

\* Lines 56 and 60 with end_ns / window_step_ns.
LastWindow_Inclusive(end_ns) ==
  Min(CDiv(end_ns, g_detail.window_step_ns), g_detail.num_windows - 1)

\* Lines 56 and 60.
LastWindow(end_ns) ==
  Min(CDiv(end_ns - 1, g_detail.window_step_ns), g_detail.num_windows - 1)

\* static void calculate_one_slice(start_ns, end_ns, result): the new buffer.
calculate_one_slice(start_ns, end_ns, row) ==
  IF start_ns >= g_detail.trace_duration_ns \/ end_ns <= 0 THEN row
  ELSE LET s == ClampStart(start_ns)
           e == ClampEnd(end_ns)
       IN  IF s >= e THEN row
           ELSE LET i_start == FirstWindow(s)
                    i_end == LastWindow(e)
                IN  IF i_start > i_end THEN row
                    ELSE SliceLoop(i_start, i_end, s, e, row)

\* Line 75 throws in calculate_one_slice(start_ns, end_ns, result): the loop
\* reaches a window with an overlap that is no index of the buffer.
SliceThrows(start_ns, end_ns, row) ==
  /\ start_ns < g_detail.trace_duration_ns
  /\ end_ns > 0
  /\ LET s == ClampStart(start_ns)
         e == ClampEnd(end_ns)
     IN  /\ s < e
         /\ \E w \in FirstWindow(s)..LastWindow(e) :
              WindowOverlap(s, e, w) > 0 /\ w + 1 \notin DOMAIN row

(***************************************************************************)
(* calculate_cpu_load: values computed from the arguments.                 *)
(***************************************************************************)
RECURSIVE SeqMax(_)
SeqMax(s) ==
  IF Len(s) = 1 THEN s[1] ELSE Max(s[1], SeqMax(Tail(s)))

\* Line 165 (evaluated only when ucpu_id is not empty).
max_cpu_id == SeqMax(ucpu_id)

\* Line 166.
num_cpus == max_cpu_id + 1

\* Line 161.
ShapeInvalid ==
  \/ Len(slice_start_ns) = 0
  \/ Len(slice_start_ns) # Len(slice_end_ns)
  \/ Len(slice_start_ns) # Len(ucpu_id)

\* Line 167 with the limit one too high.
CpuIdTooLarge_OffByOne == max_cpu_id > MaxCpuId + 1

\* Line 167.
CpuIdTooLarge == max_cpu_id > MaxCpuId

\* Mutant of WindowSpecInvalid: the trace duration is not examined.
WindowSpecInvalid_NoDuration ==
  window_step_ns <= 0 \/ window_size_ns <= 0

\* Line 172.
WindowSpecInvalid ==
  window_step_ns <= 0 \/ window_size_ns <= 0 \/ trace_duration_ns <= 0

\* Mutant of NumWindows: the window size is not subtracted.
NumWindows_IgnoresSize ==
  1 + (IF trace_duration_ns >= window_size_ns
         THEN CDiv(trace_duration_ns, window_step_ns)
         ELSE 0)

\* Lines 176-177.
NumWindows ==
  1 + (IF trace_duration_ns >= window_size_ns
         THEN CDiv(trace_duration_ns - window_size_ns, window_step_ns)
         ELSE 0)

\* Mutant of ZeroGrid: one row too many.
ZeroGrid_ExtraRow ==
  [r \in 1..(num_cpus + 3) |-> [w \in 1..NumWindows |-> FZero]]

\* Line 179: num_cpus + 2 rows of num_windows zeros.
ZeroGrid ==
  [r \in 1..(num_cpus + 2) |-> [w \in 1..NumWindows |-> FZero]]

\* Mutant of TimestampRow: the window end instead of the window start.
TimestampRow_WindowEnd ==
  [w \in 1..NumWindows |-> FromInt((w - 1) * window_step_ns + window_size_ns)]

\* Line 198: the timestamp row.
TimestampRow ==
  [w \in 1..NumWindows |-> FromInt((w - 1) * window_step_ns)]

\* Lines 205-209: accumulated += result[cpu][w] for cpu = from .. max_cpu_id.
RECURSIVE Accumulate(_, _, _, _)
Accumulate(grid, w, cpu, accumulated) ==
  IF cpu > max_cpu_id THEN accumulated
  ELSE Accumulate(grid, w, cpu + 1, FAdd(accumulated, grid[cpu + 1][w]))

\* Mutant of Overall: no std::min against full_window.
Overall_NoClamp(grid, w) ==
  FMul100(FDivInt(Accumulate(grid, w, 0, FZero), window_size_ns * num_cpus))

\* Lines 205-212: the aggregate value of window w (1-based) of `grid`.
Overall(grid, w) ==
  LET full_window == window_size_ns * num_cpus
      accumulated == FMin(Accumulate(grid, w, 0, FZero), FromInt(full_window))
  IN  FMul100(FDivInt(accumulated, full_window))

\* Lines 204-213: the grid with its aggregate row written.
Merged(grid) ==
  [grid EXCEPT ![num_cpus + 1] = [w \in 1..NumWindows |-> Overall(grid, w)]]


(***************************************************************************)
(* Executor.                                                               *)
(*   th is the position of the thread started by Executor::start:          *)
(*     "lock"   about to take m_mutex and evaluate the wait predicate,     *)
(*     "sleep"  blocked in m_condition.wait with the mutex released,       *)
(*     "calc"   holding a popped task, outside the critical section,       *)
(*     "exited" left the loop.                                             *)
(*   Each critical section is one step.                                    *)
(***************************************************************************)
\* The locals of calculate_one_slice on the worker's stack, used where the
\* call is followed read by read: start_ns, end_ns, i_start, i_end, w, two
\* temporaries, and the values of g_detail the call has loaded so far (0:
\* not loaded).  Outside calculate_one_slice they are all 0.
NoFrame ==
  [start_ns |-> 0, end_ns |-> 0, i_start |-> 0, i_end |-> 0, w |-> 0,
   a |-> 0, b |-> 0,
   loaded |-> [trace_duration_ns |-> 0, window_size_ns |-> 0,
               window_step_ns |-> 0]]

\* No second call is in progress.
OtherIdle ==
  [o |-> [s |-> 0, e |-> 0, T |-> 0, W |-> 0, S |-> 0], n |-> 0,
   th |-> "lock", fr |-> NoFrame]

\* Every Executor bound to the first row of the grid.
NewExecutor_SharedRow(row) ==
  [m_tasks |-> <<>>, m_done |-> FALSE, m_result |-> 0,
   th |-> "lock", task |-> <<0, 0>>, joinable |-> TRUE, fr |-> NoFrame]

\* Executor::Executor(result) followed by Executor::start(), lines 108-134.
NewExecutor(row) ==
  [m_tasks |-> <<>>, m_done |-> FALSE, m_result |-> row,
   th |-> "lock", task |-> <<0, 0>>, joinable |-> TRUE, fr |-> NoFrame]

\* A notification that wakes nobody.
Notified_Lost(k) == executors

\* m_condition.notify_one() / notify_all() on executor k (one waiter at most).
Notified(k) ==
  [executors EXCEPT ![k].th = IF @ = "sleep" THEN "lock" ELSE @]

Running == pc \notin {"entry", "done", "crashed"}

\* Line 123, predicate false: the thread blocks on the condition variable.
WorkerWait(k) ==
  /\ Running
  /\ executors[k].th = "lock"
  /\ ~executors[k].m_done
  /\ executors[k].m_tasks = <<>>
  /\ executors' = [executors EXCEPT ![k].th = "sleep"]
  /\ UNCHANGED <<args, other, g_detail, result, pc, i, ret>>

\* A wait may return spuriously; the predicate is evaluated again.
WorkerSpurious(k) ==
  /\ Running
  /\ executors[k].th = "sleep"
  /\ executors' = [executors EXCEPT ![k].th = "lock"]
  /\ UNCHANGED <<args, other, g_detail, result, pc, i, ret>>

\* Lines 125-126 as `if (m_done) break;`.
WorkerExit_IgnoresQueue(k) ==
  /\ Running
  /\ executors[k].th = "lock"
  /\ executors[k].m_done
  /\ executors' = [executors EXCEPT ![k].th = "exited"]
  /\ UNCHANGED <<args, other, g_detail, result, pc, i, ret>>

\* Lines 125-126.
WorkerExit(k) ==
  /\ Running
  /\ executors[k].th = "lock"
  /\ executors[k].m_done
  /\ executors[k].m_tasks = <<>>
  /\ executors' = [executors EXCEPT ![k].th = "exited"]
  /\ UNCHANGED <<args, other, g_detail, result, pc, i, ret>>

\* Lines 128-129.
WorkerTake(k) ==
  /\ Running
  /\ executors[k].th = "lock"
  /\ executors[k].m_tasks # <<>>
  /\ executors' = [executors EXCEPT ![k].task = Head(executors[k].m_tasks),
                                    ![k].m_tasks = Tail(@),
                                    ![k].th = "calc"]
  /\ UNCHANGED <<args, other, g_detail, result, pc, i, ret>>

\* The number of slices the routing loop has pushed so far (under
\* SpecExecutor: the number of tasks the client has pushed).  When the
\* process has ended, i keeps the number it had pushed by then.
PushedSlices ==
  CASE pc \in {"entry", "store1", "store2", "store3", "store4", "spawn"} -> 0
    [] pc \in {"route", "crashed"} -> i
    [] pc = "notify_one" -> i + 1
    [] pc \in {"stamp", "set_done", "notify_all", "join", "merge"} ->
         Len(slice_start_ns)
    [] pc = "done" ->
         IF ShapeInvalid \/ CpuIdTooLarge \/ WindowSpecInvalid
           THEN 0
           ELSE Len(slice_start_ns)
    [] pc = "add_notify" -> i + 1
    [] OTHER -> i

\* Line 131 while nothing writes g_detail (one call in progress): every
\* read of g_detail in the call gives the same value, so the call is one
\* step.  An exception that leaves calculate_one_slice leaves the thread
\* function: std::terminate ends the process.
WorkerCalc(k) ==
  /\ Running
  /\ executors[k].th = "calc"
  /\ result' = [result EXCEPT ![executors[k].m_result + 1] =
                  calculate_one_slice(executors[k].task[1],
                                      executors[k].task[2], @)]
  /\ IF SliceThrows(executors[k].task[1], executors[k].task[2],
                    result[executors[k].m_result + 1])
       THEN pc' = "crashed" /\ i' = PushedSlices /\ UNCHANGED executors
       ELSE pc' = pc /\ i' = i
            /\ executors' = [executors EXCEPT ![k].th = "lock"]
  /\ UNCHANGED <<args, other, g_detail, ret>>

(***************************************************************************)
(* calculate_cpu_load, the calling thread.                                 *)
(***************************************************************************)
\* Lines 161-163.
ReturnEmptyShape ==
  /\ pc = "entry"
  /\ ShapeInvalid
  /\ pc' = "done"
  /\ ret' = <<>>
  /\ UNCHANGED <<args, other, g_detail, result, executors, i>>

\* Lines 165-170.
ReturnEmptyCpu ==
  /\ pc = "entry"
  /\ ~ShapeInvalid
  /\ CpuIdTooLarge
  /\ pc' = "done"
  /\ ret' = <<>>
  /\ UNCHANGED <<args, other, g_detail, result, executors, i>>

\* Lines 172-174.
ReturnEmptySpec ==
  /\ pc = "entry"
  /\ ~ShapeInvalid
  /\ ~CpuIdTooLarge
  /\ WindowSpecInvalid
  /\ pc' = "done"
  /\ ret' = <<>>
  /\ UNCHANGED <<args, other, g_detail, result, executors, i>>

\* Lines 176-182 while no other call writes g_detail: nothing reads it
\* between the four stores of line 182, so they are one step.
Allocate ==
  /\ pc = "entry"
  /\ ~ShapeInvalid
  /\ ~CpuIdTooLarge
  /\ ~WindowSpecInvalid
  /\ result' = ZeroGrid
  /\ g_detail' = [trace_duration_ns |-> trace_duration_ns,
                  window_size_ns |-> window_size_ns,
                  window_step_ns |-> window_step_ns,
                  num_windows |-> NumWindows]
  /\ pc' = IF 0 < num_cpus THEN "spawn" ELSE "route"
  /\ i' = 0
  /\ UNCHANGED <<args, other, executors, ret>>

\* Lines 186-190, one iteration.
Spawn ==
  /\ pc = "spawn"
  /\ executors' = Append(executors, NewExecutor(i))
  /\ IF i + 1 < num_cpus
       THEN pc' = "spawn" /\ i' = i + 1
       ELSE pc' = "route" /\ i' = 0
  /\ UNCHANGED <<args, other, g_detail, result, ret>>

\* The routing loop moves on to slice i + 1, or to the timestamp loop.
NextSlice ==
  IF i + 1 < Len(slice_start_ns)
    THEN pc' = "route" /\ i' = i + 1
    ELSE pc' = "stamp" /\ i' = 0

\* executors[ucpu_id[i]] of line 193 names an element of the vector.
IndexInRange == ucpu_id[i + 1] \in 0..(Len(executors) - 1)

\* Line 193 with lines 137-140: the push under the mutex.
AddTaskPush ==
  /\ pc = "route"
  /\ IndexInRange
  /\ executors' = [executors EXCEPT ![ucpu_id[i + 1] + 1].m_tasks =
                     Append(@, <<slice_start_ns[i + 1], slice_end_ns[i + 1]>>)]
  /\ pc' = "notify_one"
  /\ UNCHANGED <<args, other, g_detail, result, i, ret>>

\* Line 141.
AddTaskNotify ==
  /\ pc = "notify_one"
  /\ executors' = Notified(ucpu_id[i + 1] + 1)
  /\ NextSlice
  /\ UNCHANGED <<args, other, g_detail, result, ret>>

\* Line 193 with an index outside the vector: operator[] is unchecked, the
\* behaviour is undefined.  The call either faults or lands on memory that
\* is no Executor of this call and leaves the modelled state alone.
RouteOutOfRange ==
  /\ pc = "route"
  /\ ~IndexInRange
  /\ \/ pc' = "crashed" /\ i' = i
     \/ NextSlice
  /\ UNCHANGED <<args, other, g_detail, result, executors, ret>>

\* Lines 197-199.
FillTimestamps ==
  /\ pc = "stamp"
  /\ result' = [result EXCEPT ![num_cpus + 2] = TimestampRow]
  /\ pc' = IF Len(executors) > 0 THEN "set_done" ELSE "merge"
  /\ i' = 0
  /\ UNCHANGED <<args, other, g_detail, executors, ret>>

\* Lines 145-148 for executor i of the loop of line 200.
SetDone ==
  /\ pc = "set_done"
  /\ executors' = [executors EXCEPT ![i + 1].m_done = TRUE]
  /\ pc' = "notify_all"
  /\ UNCHANGED <<args, other, g_detail, result, i, ret>>

\* Line 149.
NotifyAll ==
  /\ pc = "notify_all"
  /\ executors' = Notified(i + 1)
  /\ pc' = "join"
  /\ UNCHANGED <<args, other, g_detail, result, i, ret>>

\* Lines 150-151 with a join that returns at once.
Join_NoWait ==
  /\ pc = "join"
  /\ executors' = [executors EXCEPT ![i + 1].joinable = FALSE]
  /\ IF i + 1 < Len(executors)
       THEN pc' = "set_done" /\ i' = i + 1
       ELSE pc' = "merge" /\ i' = 0
  /\ UNCHANGED <<args, other, g_detail, result, ret>>

\* Lines 150-151: join blocks until the thread has left its loop.
Join ==
  /\ pc = "join"
  /\ ~executors[i + 1].joinable \/ executors[i + 1].th = "exited"
  /\ executors' = [executors EXCEPT ![i + 1].joinable = FALSE]
  /\ IF i + 1 < Len(executors)
       THEN pc' = "set_done" /\ i' = i + 1
       ELSE pc' = "merge" /\ i' = 0
  /\ UNCHANGED <<args, other, g_detail, result, ret>>

\* Lines 204-215.  The Executor destructors that run at the return find
\* m_done set and do nothing.
Merge ==
  /\ pc = "merge"
  /\ result' = Merged(result)
  /\ ret' = result'
  /\ pc' = "done"
  /\ UNCHANGED <<args, other, g_detail, executors, i>>

(***************************************************************************)
(* The explored calls.                                                     *)
(***************************************************************************)
Times == (-1)..(MaxT + 1)

\* Slices [a, b) with 0 <= a < b <= MaxT.
ProperSlices == {p \in (0..MaxT) \X (0..MaxT) : p[1] < p[2]}

CpuIds == {-1, 0, 1, MaxCpuId + 1}

Call(s, e, c, T, W, S) ==
  [s |-> s, e |-> e, c |-> c, T |-> T, W |-> W, S |-> S]

\* One slice on CPU 0, every window spec and every position of the slice.
CallsOneSlice ==
  {Call(<<a>>, <<b>>, <<0>>, T, W, S) :
     a \in Times, b \in Times, T \in 1..MaxT, W \in 1..(MaxT + 1), S \in 1..MaxT}

\* Every shape of the three sequences, with window specs that have zero and
\* negative fields.
CallsShapes ==
  {Call(s, e, c, T, W, S) :
     s \in {<<>>, <<0>>, <<0, 1>>}, e \in {<<>>, <<1>>, <<1, 2>>},
     c \in {<<>>, <<0>>, <<0, 1>>},
     T \in {-1, 0, MaxT}, W \in {-1, 0, MaxT}, S \in {-1, 0, MaxT}}

\* CPU identifiers below 0 and above the maximum.
CallsCpuIds ==
  {Call(<<0, 0>>, <<1, MaxT>>, <<c1, c2>>, MaxT, 2, 1) :
     c1 \in CpuIds, c2 \in CpuIds}

\* Three slices on one CPU, one window as long as the trace.
CallsSameCpu ==
  {Call(<<p[1], q[1], r[1]>>, <<p[2], q[2], r[2]>>, <<0, 0, 0>>, MaxT, MaxT, 1) :
     p \in ProperSlices, q \in ProperSlices, r \in ProperSlices}

\* Two slices on CPUs 0 and 1, overlapping windows.
CallsTwoCpus ==
  {Call(<<p[1], q[1]>>, <<p[2], q[2]>>, <<c1, c2>>, MaxT, 2, 1) :
     p \in ProperSlices, q \in ProperSlices, c1 \in 0..1, c2 \in 0..1}

\* A window step above 2^24, the largest range of integers a float holds
\* exactly: two windows, the second starting at 2^24 + 1.
CallsLongStep ==
  {Call(<<0>>, <<1>>, <<0>>, 2^24 + 2, 1, 2^24 + 1)}

Calls ==
  CallsOneSlice \cup CallsShapes \cup CallsCpuIds \cup CallsSameCpu
    \cup CallsTwoCpus \cup CallsLongStep

Init ==
  /\ \E call \in Calls :
       /\ slice_start_ns = call.s
       /\ slice_end_ns = call.e
       /\ ucpu_id = call.c
       /\ trace_duration_ns = call.T
       /\ window_size_ns = call.W
       /\ window_step_ns = call.S
  /\ g_detail = [trace_duration_ns |-> 0, window_size_ns |-> 0,
                 window_step_ns |-> 0, num_windows |-> 0]
  /\ result = <<>>
  /\ executors = <<>>
  /\ pc = "entry"
  /\ i = 0
  /\ ret = <<>>
  /\ other = OtherIdle

Next ==
  \/ ReturnEmptyShape
  \/ ReturnEmptyCpu
  \/ ReturnEmptySpec
  \/ Allocate
  \/ Spawn
  \/ AddTaskPush
  \/ AddTaskNotify
  \/ RouteOutOfRange
  \/ FillTimestamps
  \/ SetDone
  \/ NotifyAll
  \/ Join
  \/ Merge
  \/ \E k \in 1..Len(executors) : WorkerWait(k)
  \/ \E k \in 1..Len(executors) : WorkerSpurious(k)
  \/ \E k \in 1..Len(executors) : WorkerExit(k)
  \/ \E k \in 1..Len(executors) : WorkerTake(k)
  \/ \E k \in 1..Len(executors) : WorkerCalc(k)

Spec == Init /\ [][Next]_vars


(***************************************************************************)
(* The grid a call returns for a given submission order: every CPU row is  *)
(* the buffer of one Executor, which applies its tasks in the order of     *)
(* add_task (a FIFO queue with one consumer).                              *)
(***************************************************************************)
\* Lines 192-194 with 119-132: the buffer of `cpu` after the slices that
\* were routed to it.
RECURSIVE RowAfter(_, _, _, _, _)
RowAfter(starts, ends, cpus, cpu, row) ==
  IF starts = <<>> THEN row
  ELSE RowAfter(Tail(starts), Tail(ends), Tail(cpus), cpu,
                IF Head(cpus) = cpu
                  THEN calculate_one_slice(Head(starts), Head(ends), row)
                  ELSE row)

\* Lines 179-215 for the slices submitted in the given order.
GridOf(starts, ends, cpus) ==
  Merged([r \in 1..(num_cpus + 2) |->
            IF r <= num_cpus
              THEN RowAfter(starts, ends, cpus, r - 1,
                            [w \in 1..NumWindows |-> FZero])
              ELSE IF r = num_cpus + 2 THEN TimestampRow
              ELSE [w \in 1..NumWindows |-> FZero]])

\* Whatever the interleaving of the caller and the workers, a call that
\* returns a grid returns GridOf of its arguments.
ReturnedGridIsGridOf ==
  (pc = "done" /\ ret # <<>>) => ret = GridOf(slice_start_ns, slice_end_ns, ucpu_id)

(***************************************************************************)
(* Vocabulary of the properties, written from the arguments of the call.   *)
(***************************************************************************)
Returned == pc = "done"

\* The three sequences are non-empty and of equal length.
ShapeOk ==
  /\ Len(slice_start_ns) > 0
  /\ Len(slice_end_ns) = Len(slice_start_ns)
  /\ Len(ucpu_id) = Len(slice_start_ns)

SpecPositive ==
  trace_duration_ns > 0 /\ window_size_ns > 0 /\ window_step_ns > 0

\* Every CPU identifier names a row: 0 .. MaxCpuId.
CpuIdsInRange ==
  \A k \in 1..Len(ucpu_id) : ucpu_id[k] \in 0..MaxCpuId

ValidCall == ShapeOk /\ SpecPositive /\ CpuIdsInRange

\* Number of CPU rows of a valid call.
CpuCount == 1 + SeqMax(ucpu_id)

\* The window count of the data model.
WindowCount ==
  IF trace_duration_ns < window_size_ns THEN 1
  ELSE 1 + ((trace_duration_ns - window_size_ns) \div window_step_ns)

Windows == 1..WindowCount

\* Nanoseconds of [start_ns, end_ns), cut to [0, trace_duration_ns), inside
\* window w (1-based): by a scan, no index range involved.
ClampedOverlap(start_ns, end_ns, w) ==
  LET lo == Max(Max(start_ns, 0), (w - 1) * window_step_ns)
      hi == Min(Min(end_ns, trace_duration_ns),
                (w - 1) * window_step_ns + window_size_ns)
  IN  Max(0, hi - lo)

\* (ns / window_size_ns) * 100 in single precision.
LoadOf(ns) == FMul100(FDivInt(FromInt(ns), window_size_ns))

F100 == FromInt(100)

\* Sum over all slices of the raw overlap with window w.
RECURSIVE RawSum(_, _)
RawSum(k, w) ==
  IF k = 0 THEN 0
  ELSE RawSum(k - 1, w) + ClampedOverlap(slice_start_ns[k], slice_end_ns[k], w)

\* floor(x * 1024) of a float below 2^20.
Fix(x) ==
  IF IsNaN(x) THEN -1
  ELSE IF x[2] + 10 >= 0 THEN x[1] * 2^(x[2] + 10)
  ELSE IF -(x[2] + 10) > 30 THEN 0
  ELSE x[1] \div 2^(-(x[2] + 10))

\* x is the rational n / d up to single-precision rounding (2 / 1024).
Near(x, n, d) ==
  LET q == (n * 1024) \div d
  IN  Fix(x) - q \in (-2)..2

Orders(n) ==
  {f \in [1..n -> 1..n] : \A a \in 1..n : \A b \in 1..n : f[a] = f[b] => a = b}

Permuted(seq, f) == [k \in 1..Len(seq) |-> seq[f[k]]]

(***************************************************************************)
(* Properties.                                                             *)
(***************************************************************************)

\* C1: for every valid call and every window w, the aggregate row equals
\* min(S, window_size_ns * num_cpus) / (window_size_ns * num_cpus) * 100 with
\* S the raw overlap nanoseconds of all CPUs in w (read up to float
\* rounding), and with one CPU the aggregate row equals the CPU-0 row.
C1_AggregateFromRawOverlap ==
  (Returned /\ ValidCall) =>
    /\ \A w \in Windows :
         Near(ret[CpuCount + 1][w],
              100 * Min(RawSum(Len(slice_start_ns), w), window_size_ns * CpuCount),
              window_size_ns * CpuCount)
    /\ CpuCount = 1 => ret[2] = ret[1]

\* C2: for every valid call every per-CPU value of the returned grid lies
\* in [0, 100], also when slices of one CPU overlap each other.
C2_PerCpuLoadWithinPercent ==
  (Returned /\ ValidCall) =>
    \A cpu \in 1..CpuCount : \A w \in Windows :
      FLeq(FZero, ret[cpu][w]) /\ FLeq(ret[cpu][w], F100)

\* C3: a call with an empty slice list, with sequences of different
\* lengths or with a non-positive window spec field starts no worker,
\* computes nothing and returns the empty grid.
C3_InvalidInputReturnsEmpty ==
  (~ShapeOk \/ ~SpecPositive) =>
    /\ pc \in {"entry", "done"}
    /\ executors = <<>>
    /\ result = <<>>
    /\ g_detail.num_windows = 0
    /\ Returned => ret = <<>>

C3_Witness ==
  /\ Returned
  /\ ShapeOk
  /\ trace_duration_ns <= 0
  /\ window_size_ns > 0
  /\ window_step_ns > 0
  /\ ret = <<>>

\* C4 as stated: every call with non-empty sequences of equal length and a
\* strictly positive window spec returns a non-empty grid of num_cpus + 2
\* rows of num_windows >= 1 values each.  (Stated for the calls without a
\* negative CPU identifier, for which routing is defined.)
C4_GridShapeOfEveryCheckedCall ==
  (Returned /\ ShapeOk /\ SpecPositive /\ \A k \in 1..Len(ucpu_id) : ucpu_id[k] >= 0) =>
    /\ ret # <<>>
    /\ Len(ret) = CpuCount + 2
    /\ WindowCount >= 1
    /\ \A r \in 1..Len(ret) : Len(ret[r]) = WindowCount

\* C4 amended: the same for the calls whose CPU identifiers all lie in
\* 0..32; the rows are the CPU rows, then the aggregate row, then the
\* timestamp row.
C4_GridShape ==
  (Returned /\ ValidCall) =>
    /\ ret # <<>>
    /\ Len(ret) = CpuCount + 2
    /\ WindowCount >= 1
    /\ \A r \in 1..Len(ret) : Len(ret[r]) = WindowCount
    /\ \A w \in Windows :
         /\ ret[CpuCount + 2][w] = FromInt((w - 1) * window_step_ns)
         /\ FLeq(ret[CpuCount + 1][w], F100)

C4_Witness ==
  /\ Returned
  /\ ValidCall
  /\ CpuCount = 2
  /\ WindowCount = 2
  /\ Len(ret) = 4


\* A call with one slice that lies inside the trace and inside the span of
\* window w (1-based).
OneSliceInside(w) ==
  /\ ValidCall
  /\ Len(slice_start_ns) = 1
  /\ 0 <= slice_start_ns[1]
  /\ slice_start_ns[1] < slice_end_ns[1]
  /\ slice_end_ns[1] <= trace_duration_ns
  /\ (w - 1) * window_step_ns <= slice_start_ns[1]
  /\ slice_end_ns[1] <= (w - 1) * window_step_ns + window_size_ns

\* C5 as stated: for one slice inside the trace and inside the span of a
\* window w, the CPU's row holds (duration / window_size_ns) * 100 at w and
\* 0 at every other window, for every window spec.
C5_OnlyTheContainingWindow ==
  (Returned /\ ValidCall) =>
    \A w \in Windows :
      OneSliceInside(w) =>
        /\ ret[ucpu_id[1] + 1][w] = LoadOf(slice_end_ns[1] - slice_start_ns[1])
        /\ \A v \in Windows \ {w} : ret[ucpu_id[1] + 1][v] = FZero

\* C5 amended: the row holds (duration / window_size_ns) * 100 at w and 0 at
\* every other window whose span does not overlap the slice; all other
\* windows are 0 when window_step_ns >= window_size_ns.
C5_ContainingWindowLoad ==
  (Returned /\ ValidCall) =>
    \A w \in Windows :
      OneSliceInside(w) =>
        /\ ret[ucpu_id[1] + 1][w] = LoadOf(slice_end_ns[1] - slice_start_ns[1])
        /\ \A v \in Windows \ {w} :
             ClampedOverlap(slice_start_ns[1], slice_end_ns[1], v) = 0
               => ret[ucpu_id[1] + 1][v] = FZero
        /\ window_step_ns >= window_size_ns
             => \A v \in Windows \ {w} : ret[ucpu_id[1] + 1][v] = FZero

C5_Witness ==
  /\ Returned
  /\ ValidCall
  /\ WindowCount = 3
  /\ window_step_ns = window_size_ns
  /\ OneSliceInside(2)
  /\ ret[1][2] = F100
  /\ ret[1][1] = FZero
  /\ ret[1][3] = FZero

\* C6: every slice a worker processes adds to each window exactly the load
\* of that window's overlap with the slice cut to [0, trace_duration_ns);
\* a slice at or after the trace end, at or before 0, or empty after the
\* cut changes no value.
C6_ContributionIsClampedOverlap ==
  [][\A k \in 1..Len(executors) :
       (executors[k].th = "calc" /\ executors'[k].th # "calc") =>
         \A w \in Windows :
           LET ns == ClampedOverlap(executors[k].task[1], executors[k].task[2], w)
               old == result[executors[k].m_result + 1][w]
               new == result'[executors[k].m_result + 1][w]
           IN  new = IF ns > 0 THEN FAdd(old, LoadOf(ns)) ELSE old]_vars

\* A slice that starts before 0 and ends after the trace end has been
\* accumulated as the trace-long part of it.
C6_Witness ==
  /\ Returned
  /\ ValidCall
  /\ Len(slice_start_ns) = 1
  /\ slice_start_ns[1] < 0
  /\ slice_end_ns[1] > trace_duration_ns
  /\ trace_duration_ns < window_size_ns
  /\ ret[1][1] = LoadOf(trace_duration_ns)
  /\ ret[1][1] # FZero

\* C7: the index that selects a worker in the routing loop is always within
\* [0, number of workers), and a slice with an identifier that has no worker
\* does not abort the call.
C7_RoutingIndexInRange ==
  /\ pc = "route" => ucpu_id[i + 1] \in 0..(Len(executors) - 1)
  /\ pc # "crashed"

\* C8: submitting the slices in any other order returns the identical grid.
C8_OrderIndependent ==
  (Returned /\ ValidCall) =>
    \A f \in Orders(Len(slice_start_ns)) :
      GridOf(Permuted(slice_start_ns, f), Permuted(slice_end_ns, f),
             Permuted(ucpu_id, f)) = ret

\* C9: for every valid call every value of the aggregate row lies in
\* [0, 100].
C9_AggregateWithinPercent ==
  (Returned /\ ValidCall) =>
    \A w \in Windows :
      FLeq(FZero, ret[CpuCount + 1][w]) /\ FLeq(ret[CpuCount + 1][w], F100)

\* Slices of one CPU overlap each other: the CPU row is above 100 and the
\* aggregate is 100.
C9_Witness ==
  /\ Returned
  /\ ValidCall
  /\ \E w \in Windows :
       /\ ~FLeq(ret[1][w], F100)
       /\ ret[CpuCount + 1][w] = F100

\* C10: for a strictly positive window spec num_windows is 1 when
\* trace_duration_ns < window_size_ns and 1 + floor((trace_duration_ns -
\* window_size_ns) / window_step_ns) otherwise; it is at least 1 and the
\* last window ends at or before trace_duration_ns when trace_duration_ns
\* >= window_size_ns.
C10_WindowCount ==
  (result # <<>> /\ SpecPositive) =>
    /\ g_detail.num_windows = WindowCount
    /\ \A r \in 1..Len(result) : Len(result[r]) = WindowCount
    /\ g_detail.num_windows >= 1
    /\ trace_duration_ns >= window_size_ns =>
         (g_detail.num_windows - 1) * window_step_ns + window_size_ns
           <= trace_duration_ns

\* The division of the formula rounds down and leaves part of the trace
\* after the last window.
C10_Witness ==
  /\ result # <<>>
  /\ SpecPositive
  /\ trace_duration_ns > window_size_ns
  /\ (trace_duration_ns - window_size_ns) % window_step_ns # 0
  /\ g_detail.num_windows = 1
  /\ window_step_ns + window_size_ns > trace_duration_ns


\* The float x holds exactly the integer n (0 <= n < 2^31).
HoldsInt(x, n) ==
  IF n = 0 THEN x = FZero
  ELSE /\ ~IsNaN(x)
       /\ x # FZero
       /\ IF x[2] >= 0 THEN x[2] <= 7 /\ x[1] * 2^(x[2]) = n
          ELSE x[1] = n * 2^(-x[2])

\* The caller has filled the timestamp row and not returned yet.
Stamped == pc \in {"set_done", "notify_all", "join", "merge"}

\* C11 as stated: for every valid call the last row holds w * window_step_ns
\* at every window w.
C11_TimestampIsWindowStart ==
  (Returned /\ ValidCall) =>
    \A w \in Windows : HoldsInt(ret[CpuCount + 2][w], (w - 1) * window_step_ns)

\* C11 amended: from the moment it is written, whatever the workers do and
\* whatever the slices are, the last row holds at every window w the float
\* nearest to w * window_step_ns, which is w * window_step_ns itself when
\* that is at most 2^24.
C11_TimestampIsRoundedWindowStart ==
  ((Returned \/ Stamped) /\ ValidCall) =>
    LET row == IF Returned THEN ret[CpuCount + 2] ELSE result[CpuCount + 2]
    IN  \A w \in Windows :
          /\ row[w] = FromInt((w - 1) * window_step_ns)
          /\ (w - 1) * window_step_ns <= 2^24
               => HoldsInt(row[w], (w - 1) * window_step_ns)

\* The timestamp row is complete while a worker still holds a task.
C11_Witness ==
  /\ Stamped
  /\ ValidCall
  /\ WindowCount >= 2
  /\ \E k \in 1..Len(executors) : executors[k].th = "calc"
  /\ result[CpuCount + 2][2] = FromInt(window_step_ns)


(***************************************************************************)
(* One Executor driven by a client thread, outside calculate_cpu_load.     *)
(* The client adds the slices of the call one by one, then calls           *)
(* wait_until_finish up to twice, then destroys the Executor; it may       *)
(* destroy it at any point before that.  `i` counts the tasks added, `ret` *)
(* lists the member calls that have returned to the client, and `pc` is    *)
(* the client's position:                                                  *)
(*   "client"      between two member calls,                               *)
(*   "add_notify"  in add_task after the push,                             *)
(*   "wuf_notify"  in wait_until_finish after m_done is set,               *)
(*   "wuf_join"    in wait_until_finish before the joinable test,          *)
(*   "dtor"        in ~Executor before the m_done test,                    *)
(*   "destroyed"   the Executor is gone.                                   *)
(* `Dtor` in `ret` marks a wait_until_finish that ~Executor called.        *)
(***************************************************************************)
\* Two slices for the one Executor, windows that overlap.
CallsExecutor ==
  {Call(<<p[1], q[1]>>, <<p[2], q[2]>>, <<0, 0>>, MaxT, 2, 1) :
     p \in ProperSlices, q \in ProperSlices}

\* Lines 108-109 and 117-134: an Executor on row 0 of a zero grid, started.
InitExecutor ==
  /\ \E call \in CallsExecutor :
       /\ slice_start_ns = call.s
       /\ slice_end_ns = call.e
       /\ ucpu_id = call.c
       /\ trace_duration_ns = call.T
       /\ window_size_ns = call.W
       /\ window_step_ns = call.S
  /\ g_detail = [trace_duration_ns |-> trace_duration_ns,
                 window_size_ns |-> window_size_ns,
                 window_step_ns |-> window_step_ns,
                 num_windows |-> NumWindows]
  /\ result = ZeroGrid
  /\ executors = <<NewExecutor(0)>>
  /\ pc = "client"
  /\ i = 0
  /\ ret = <<>>
  /\ other = OtherIdle

\* wait_until_finish has not been entered, by the client or by ~Executor.
NeverFinished == \A n \in 1..Len(ret) : ret[n] # "wait_until_finish"

\* The client is inside ~Executor.
InDtor == ret # <<>> /\ ret[Len(ret)] = "Dtor"

\* Lines 137-140.
ClientAddPush ==
  /\ pc = "client"
  /\ NeverFinished
  /\ i < Len(slice_start_ns)
  /\ executors' = [executors EXCEPT ![1].m_tasks =
                     Append(@, <<slice_start_ns[i + 1], slice_end_ns[i + 1]>>)]
  /\ pc' = "add_notify"
  /\ UNCHANGED <<args, other, g_detail, result, i, ret>>

\* Line 141.
ClientAddNotify ==
  /\ pc = "add_notify"
  /\ executors' = Notified(1)
  /\ pc' = "client"
  /\ i' = i + 1
  /\ ret' = Append(ret, "add_task")
  /\ UNCHANGED <<args, other, g_detail, result>>

\* Lines 145-148, called by the client for the first or the second time.
ClientSetDone ==
  /\ pc = "client"
  /\ Cardinality({n \in 1..Len(ret) : ret[n] = "wait_until_finish"}) < 2
  /\ executors' = [executors EXCEPT ![1].m_done = TRUE]
  /\ pc' = "wuf_notify"
  /\ UNCHANGED <<args, other, g_detail, result, i, ret>>

\* Line 149.
ClientNotifyAll ==
  /\ pc = "wuf_notify"
  /\ executors' = Notified(1)
  /\ pc' = "wuf_join"
  /\ UNCHANGED <<args, other, g_detail, result, i, ret>>

\* Line 150.
Joinable_Always(k) == TRUE

\* Line 150.
Joinable(k) == executors[k].joinable

\* Lines 150-151.  join() on a thread that is not joinable throws
\* std::system_error, which nothing catches.
ClientJoin ==
  /\ pc = "wuf_join"
  /\ IF Joinable(1)
       THEN IF executors[1].joinable
              THEN /\ executors[1].th = "exited"
                   /\ executors' = [executors EXCEPT ![1].joinable = FALSE]
                   /\ pc' = IF InDtor THEN "destroyed" ELSE "client"
                   /\ ret' = IF InDtor THEN Append(ret, "~Executor")
                                       ELSE Append(ret, "wait_until_finish")
              ELSE /\ pc' = "crashed"
                   /\ UNCHANGED <<executors, ret>>
       ELSE /\ pc' = IF InDtor THEN "destroyed" ELSE "client"
            /\ ret' = IF InDtor THEN Append(ret, "~Executor")
                                ELSE Append(ret, "wait_until_finish")
            /\ UNCHANGED executors
  /\ UNCHANGED <<args, other, g_detail, result, i>>

\* The client lets the Executor go out of scope.
ClientDestroy ==
  /\ pc = "client"
  /\ pc' = "dtor"
  /\ UNCHANGED <<args, other, g_detail, result, executors, i, ret>>

\* Lines 111-115 with m_done clear: ~Executor enters wait_until_finish.
DtorFinish ==
  /\ pc = "dtor"
  /\ ~executors[1].m_done
  /\ executors' = [executors EXCEPT ![1].m_done = TRUE]
  /\ ret' = Append(ret, "Dtor")
  /\ pc' = "wuf_notify"
  /\ UNCHANGED <<args, other, g_detail, result, i>>

\* Lines 111-115 with m_done set: the members are destroyed at once; the
\* destructor of a joinable std::thread calls std::terminate.
DtorSkip ==
  /\ pc = "dtor"
  /\ executors[1].m_done
  /\ pc' = IF executors[1].joinable THEN "crashed" ELSE "destroyed"
  /\ ret' = Append(ret, "~Executor")
  /\ UNCHANGED <<args, other, g_detail, result, executors, i>>

NextExecutor ==
  \/ ClientAddPush
  \/ ClientAddNotify
  \/ ClientSetDone
  \/ ClientNotifyAll
  \/ ClientJoin
  \/ ClientDestroy
  \/ DtorFinish
  \/ DtorSkip
  \/ WorkerWait(1)
  \/ WorkerSpurious(1)
  \/ WorkerExit(1)
  \/ WorkerTake(1)
  \/ WorkerCalc(1)

SpecExecutor == InitExecutor /\ [][NextExecutor]_vars

\* The first n slices of the call.
Added(seq, n) == SubSeq(seq, 1, n)

\* The buffer holds the contribution of every task added, once each.
BufferComplete ==
  result[1] = RowAfter(Added(slice_start_ns, i), Added(slice_end_ns, i),
                       Added(ucpu_id, i), 0, ZeroGrid[1])

\* The worker has left its loop with nothing queued and has been joined.
Drained ==
  /\ executors[1].th = "exited"
  /\ executors[1].m_tasks = <<>>
  /\ ~executors[1].joinable

\* wait_until_finish has returned to the client at least once.
FinishedOnce == \E n \in 1..Len(ret) : ret[n] = "wait_until_finish"

\* C12: once wait_until_finish has returned, the worker is drained and
\* joined and the buffer is complete, and a second call keeps all of that
\* at every step and finds the thread not joinable, so it does not wait;
\* after ~Executor on a worker never finished the queue is empty, the
\* thread joined and the buffer complete; the client never waits on a
\* worker that is itself waiting, and join() is never called on a thread
\* that is not joinable.
C12_FinishTwiceAndDestroy ==
  /\ FinishedOnce => Drained /\ BufferComplete
  /\ pc = "destroyed" => Drained /\ BufferComplete
  /\ (pc = "wuf_join" /\ executors[1].joinable) => executors[1].th # "sleep"
  /\ pc # "crashed"

\* ~Executor has returned on a worker that had two tasks and on which the
\* client never called wait_until_finish, and the buffer is not zero.
C12_Witness ==
  /\ pc = "destroyed"
  /\ ret = <<"add_task", "add_task", "Dtor", "~Executor">>
  /\ \E w \in 1..NumWindows : result[1][w] # FZero


(***************************************************************************)
(* The tasks of every Executor of a calculate_cpu_load call.               *)
(***************************************************************************)
\* The tasks add_task has pushed on executor k so far, in order.
Submitted(k) ==
  LET idx == SelectSeq([j \in 1..PushedSlices |-> j],
                       LAMBDA j : ucpu_id[j] = k - 1)
  IN  [m \in 1..Len(idx) |-> <<slice_start_ns[idx[m]], slice_end_ns[idx[m]]>>]

\* Worker k holds a task it has popped and whose calculate_one_slice has
\* not returned: line 131, before the call or at one of its reads.
HoldsTask(k) ==
  executors[k].th \in {"calc", "c43", "c43v", "c49", "c53", "c53b",
                       "c56", "c60", "c65", "c66", "c75"}

\* The number of tasks executor k has taken and accumulated.
Accumulated(k) ==
  Len(Submitted(k)) - Len(executors[k].m_tasks)
    - (IF HoldsTask(k) THEN 1 ELSE 0)

\* A zero row after calculate_one_slice on the first n of the tasks.
RowOf(tasks, n) ==
  RowAfter([m \in 1..n |-> tasks[m][1]], [m \in 1..n |-> tasks[m][2]],
           [m \in 1..n |-> 0], 0, [w \in 1..NumWindows |-> FZero])

\* C13: at every step of every interleaving the tasks pushed on a worker
\* are, in order, those it has accumulated (each once, which is what its
\* buffer holds), the one it is working on and those still queued; a worker
\* that has exited had the done flag set and an empty queue; and once
\* wait_until_finish has returned (the thread is joined) every task pushed
\* on that worker is accumulated.
C13_EveryTaskAccumulatedOnce ==
  \A k \in 1..Len(executors) :
    LET tasks == Submitted(k)
        n == Accumulated(k)
    IN  /\ n >= 0
        /\ executors[k].m_tasks = SubSeq(tasks, Len(tasks) - Len(executors[k].m_tasks) + 1, Len(tasks))
        /\ executors[k].th = "calc" => executors[k].task = tasks[n + 1]
        /\ pc # "done" => result[k] = RowOf(tasks, n)
        /\ executors[k].th = "exited" => executors[k].m_done /\ executors[k].m_tasks = <<>>
        /\ ~executors[k].joinable => executors[k].th = "exited" /\ n = Len(tasks)

\* wait_until_finish is waiting for a worker that got three tasks: the
\* first is accumulated, the second is being worked on and the third is
\* still queued with the done flag already set.
C13_Witness ==
  /\ pc = "join"
  /\ Len(executors) = 1
  /\ Len(Submitted(1)) = 3
  /\ executors[1].m_done
  /\ executors[1].th = "calc"
  /\ Len(executors[1].m_tasks) = 1
  /\ \E w \in 1..NumWindows : result[1][w] # FZero


\* C14: when the merge loop of lines 204-213 is about to read the CPU rows,
\* every worker has left its loop with an empty queue and has been joined,
\* and every CPU row holds all the tasks routed to it.
C14_MergeAfterAllWorkersExited ==
  pc = "merge" =>
    \A k \in 1..Len(executors) :
      /\ executors[k].th = "exited"
      /\ executors[k].m_tasks = <<>>
      /\ ~executors[k].joinable
      /\ result[k] = RowOf(Submitted(k), Len(Submitted(k)))

\* The merge is about to start on two CPU rows that both hold load.
C14_Witness ==
  /\ pc = "merge"
  /\ Len(executors) = 2
  /\ \A k \in 1..2 : \E w \in 1..NumWindows : result[k][w] # FZero


\* Some worker thread of the call has not left its loop.
WorkersRunning == \E k \in 1..Len(executors) : executors[k].th # "exited"

\* Executor k is bound to CPU row k - 1 and to no other Executor's row.
BoundToOwnRow ==
  \A k \in 1..Len(executors) :
    /\ executors[k].m_result = k - 1
    /\ executors[k].m_result < num_cpus
    /\ \A l \in 1..Len(executors) :
         l # k => executors[l].m_result # executors[k].m_result

\* A step taken while a worker runs changes row r only if r is the
\* timestamp row and the caller fills it, or r is a CPU row and the step is
\* the calculate_one_slice of the one worker bound to r.
OneWriterPerRow ==
  WorkersRunning =>
    /\ DOMAIN result' = DOMAIN result
    /\ \A r \in DOMAIN result :
         result'[r] # result[r] =>
           \/ r = num_cpus + 2 /\ pc = "stamp" /\ executors' = executors
           \/ /\ r <= Len(executors)
              /\ executors[r].m_result = r - 1
              /\ executors[r].th = "calc"
              /\ pc' = pc
              /\ \A l \in 1..Len(executors) : l # r => executors'[l] = executors[l]

\* C15: no two workers are bound to the same row, and while a worker is
\* running a row is written only by the worker bound to it, except the
\* timestamp row, which only the caller writes.
C15_OneWriterPerRow == [](BoundToOwnRow) /\ [][OneWriterPerRow]_vars

\* The caller is about to fill the timestamp row while two workers are
\* each accumulating a task into their row.
C15_Witness ==
  /\ pc = "stamp"
  /\ Len(executors) = 2
  /\ \A k \in 1..2 : executors[k].th = "calc"


(***************************************************************************)
(* Fair scheduling: the calling thread and every worker thread that can    *)
(* take a step eventually takes one.  A spurious wake-up is something the  *)
(* implementation may do, never something it must do, so it is under no    *)
(* fairness condition: a worker that sleeps is woken by a notification or  *)
(* possibly never.                                                         *)
(* The two steps that compute rows, WorkerCalc and Merge, are named in the *)
(* fairness conditions by what they do to the thread's position            *)
(* (CalcReturns, MergeReturns): among the steps of Next, a step changes    *)
(* `executors` as CalcReturns(k) says exactly when it is WorkerCalc(k),    *)
(* and `pc` as MergeReturns says exactly when it is Merge, and each is     *)
(* enabled exactly when the step it names is.                              *)
(***************************************************************************)
\* The caller's steps before the merge.
CallerStep ==
  \/ ReturnEmptyShape
  \/ ReturnEmptyCpu
  \/ ReturnEmptySpec
  \/ Allocate
  \/ Spawn
  \/ AddTaskPush
  \/ AddTaskNotify
  \/ RouteOutOfRange
  \/ FillTimestamps
  \/ SetDone
  \/ NotifyAll
  \/ Join

\* Lines 204-215 return.
MergeReturns == pc = "merge" /\ pc' = "done"

\* The steps of worker k inside its critical section.
WorkerStep(k) ==
  /\ k \in 1..Len(executors)
  /\ \/ WorkerWait(k)
     \/ WorkerExit(k)
     \/ WorkerTake(k)

\* Line 131 returns on worker k.
CalcReturns(k) ==
  /\ k \in 1..Len(executors)
  /\ Running
  /\ executors[k].th = "calc"
  /\ executors' = [executors EXCEPT ![k].th = "lock"]

\* Calls of every kind with at most MaxWorkers CPUs: wrong shapes and
\* window specs, identifiers out of range, and two slices on CPUs 0 and 1.
CallsFair == CallsShapes \cup CallsCpuIds \cup CallsTwoCpus

InitFair ==
  /\ \E call \in CallsFair :
       /\ slice_start_ns = call.s
       /\ slice_end_ns = call.e
       /\ ucpu_id = call.c
       /\ trace_duration_ns = call.T
       /\ window_size_ns = call.W
       /\ window_step_ns = call.S
  /\ g_detail = [trace_duration_ns |-> 0, window_size_ns |-> 0,
                 window_step_ns |-> 0, num_windows |-> 0]
  /\ result = <<>>
  /\ executors = <<>>
  /\ pc = "entry"
  /\ i = 0
  /\ ret = <<>>
  /\ other = OtherIdle

SpecFair ==
  /\ InitFair
  /\ [][Next]_vars
  /\ WF_vars(CallerStep)
  /\ WF_pc(MergeReturns)
  /\ \A k \in 1..MaxWorkers : WF_vars(WorkerStep(k))
  /\ \A k \in 1..MaxWorkers : WF_executors(CalcReturns(k))

\* Every worker thread has left its loop and has been joined.
AllWorkersJoined ==
  \A k \in 1..Len(executors) :
    executors[k].th = "exited" /\ ~executors[k].joinable

\* C16: a call with valid input returns; while the caller waits in join
\* the worker it waits for is not blocked on the condition variable (the
\* wake-up that follows the done flag is not lost); and when the call has
\* returned every worker has exited and is joined.
C16_TerminatesUnderFairness ==
  /\ ValidCall ~> Returned
  /\ [](pc = "join" => executors[i + 1].th # "sleep")
  /\ [](Returned => AllWorkersJoined)

\* The caller waits in join for the second worker, which was woken with the
\* done flag set and an empty queue and is about to leave its loop.
C16_Witness ==
  /\ pc = "join"
  /\ ValidCall
  /\ i = 1
  /\ executors[2].m_done
  /\ executors[2].m_tasks = <<>>
  /\ executors[2].th = "lock"
  /\ ~executors[1].joinable


(***************************************************************************)
(* The window range of calculate_one_slice, looked at when a worker holds  *)
(* a task and is about to call it.                                         *)
(***************************************************************************)
\* Worker k is about to call calculate_one_slice.
InCalc(k) == k \in 1..Len(executors) /\ executors[k].th = "calc"

\* The end points of the task of worker k after lines 42-43.
TaskStart(k) == Max(0, executors[k].task[1])

TaskEnd(k) == Min(trace_duration_ns, executors[k].task[2])

\* The task of worker k passes lines 39-44: clamped, it is not empty.
TaskInTrace(k) ==
  /\ executors[k].task[1] < trace_duration_ns
  /\ executors[k].task[2] > 0
  /\ TaskStart(k) < TaskEnd(k)

\* Window w (from 0) and [s, e) have a nanosecond in common.
Overlaps(s, e, w) ==
  Max(s, w * window_step_ns) < Min(e, w * window_step_ns + window_size_ns)

\* C17: for a strictly positive window spec and a task that, clamped, is
\* [s, e) with 0 <= s < e <= trace_duration_ns, the windows i_start..i_end
\* of calculate_one_slice are exactly the windows among 0..num_windows-1
\* that overlap [s, e); the range is empty exactly when there is none.
C17_RangeIsOverlappingWindows ==
  \A k \in 1..Len(executors) :
    (InCalc(k) /\ SpecPositive /\ TaskInTrace(k)) =>
      LET s == TaskStart(k)
          e == TaskEnd(k)
          scan == {w \in 0..(WindowCount - 1) : Overlaps(s, e, w)}
      IN  /\ FirstWindow(s)..LastWindow(e) = scan
          /\ (FirstWindow(s) > LastWindow(e)) = (scan = {})

\* A worker holds a task that overlaps the windows in the middle of the
\* grid and neither the first nor the last one.
C17_Witness ==
  /\ InCalc(1)
  /\ SpecPositive
  /\ TaskInTrace(1)
  /\ 0 < FirstWindow(TaskStart(1))
  /\ FirstWindow(TaskStart(1)) <= LastWindow(TaskEnd(1))
  /\ LastWindow(TaskEnd(1)) < WindowCount - 1


\* The task of worker k passes lines 39-44 as calculate_one_slice reads
\* them, with the window spec of g_detail.
TaskReachesLoop(k) ==
  /\ executors[k].task[1] < g_detail.trace_duration_ns
  /\ executors[k].task[2] > 0
  /\ ClampStart(executors[k].task[1]) < ClampEnd(executors[k].task[2])

\* C20: every window w that the loop of calculate_one_slice visits is an
\* index of the buffer, 0 <= w <= num_windows - 1, and has a positive
\* overlap with the clamped task, so `continue` is not taken.
C20_LoopInBoundsAndOverlapping ==
  \A k \in 1..Len(executors) :
    (InCalc(k) /\ TaskReachesLoop(k)) =>
      LET s == ClampStart(executors[k].task[1])
          e == ClampEnd(executors[k].task[2])
      IN  \A w \in FirstWindow(s)..LastWindow(e) :
            /\ 0 <= w
            /\ w <= g_detail.num_windows - 1
            /\ w + 1 \in DOMAIN result[executors[k].m_result + 1]
            /\ WindowOverlap(s, e, w) > 0

\* A worker holds a task whose loop visits more than one window.
C20_Witness ==
  /\ InCalc(1)
  /\ TaskReachesLoop(1)
  /\ FirstWindow(ClampStart(executors[1].task[1]))
       < LastWindow(ClampEnd(executors[1].task[2]))

\* A worker holds a task that lies between two windows.
TaskInGap ==
  /\ InCalc(1)
  /\ SpecPositive
  /\ TaskInTrace(1)
  /\ FirstWindow(TaskStart(1)) > LastWindow(TaskEnd(1))


(***************************************************************************)
(* A second calculate_cpu_load call in progress on another thread.  The    *)
(* function has external linkage and g_detail is one object for the whole  *)
(* process.  The second call is the same function on its own arguments: it *)
(* writes g_detail at line 182 with its own window spec (four stores, in   *)
(* the order of the members, no synchronisation), and its worker then runs *)
(* calculate_one_slice on its task, reading g_detail.  What the two calls  *)
(* share is g_detail and the process: an exception that leaves the worker  *)
(* of either call ends both.  The grid, the Executors and the queue of the *)
(* second call are its own; of them only the length of its row counts      *)
(* here, at result->at(w).                                                 *)
(*   Nothing orders the two calls: the stores of the second can come       *)
(* before this call, between the four stores of its own line 182, while    *)
(* its workers run and after it.  The reads of g_detail in                 *)
(* calculate_one_slice race with the stores, so under this specification   *)
(* line 182 is followed store by store (positions "store1" to "store4" of  *)
(* the calling thread: the member it stores next) and calculate_one_slice  *)
(* read by read.  A read is a load from g_detail or the value an earlier   *)
(* load of the same member left in a register: an unoptimised build loads  *)
(* at every use, an optimised build loads each member once.                *)
(*   Positions of a worker (`th`) inside calculate_one_slice:              *)
(*     "calc"  line 39,            "c43"   line 43, the comparison,        *)
(*     "c43v"  line 43, the load through the reference std::min returned,  *)
(*     "c49"   line 49,            "c53"   line 53, first operand,         *)
(*     "c53b"  line 53, second operand,        "c56" line 56,              *)
(*     "c60"   line 60,            "c65"   line 65,                        *)
(*     "c66"   line 66,            "c75"   line 75.                        *)
(***************************************************************************)
\* The second call: one slice on CPU 0 over its whole trace, with more
\* windows than any call explored here, or with one window as long as the
\* trace.
OtherCalls ==
  {[s |-> 0, e |-> MaxT + 1, T |-> MaxT + 1, W |-> 1, S |-> 1],
   [s |-> 0, e |-> MaxT, T |-> MaxT, W |-> MaxT, S |-> 1]}

\* Lines 176-177 in the second call: the length of its rows.
OtherNumWindows(o) ==
  1 + (IF o.T >= o.W THEN CDiv(o.T - o.W, o.S) ELSE 0)

\* Line 182 in the second call, one store: member n + 1 of g_detail, the
\* first one with the arguments the call was given.  After the fourth its
\* worker holds the task and is about to call calculate_one_slice.
OtherCallStore ==
  /\ pc # "crashed"
  /\ other.n < 4
  /\ \E o \in IF other.n = 0 THEN OtherCalls ELSE {other.o} :
       /\ g_detail' =
            CASE other.n = 0 -> [g_detail EXCEPT !.trace_duration_ns = o.T]
              [] other.n = 1 -> [g_detail EXCEPT !.window_size_ns = o.W]
              [] other.n = 2 -> [g_detail EXCEPT !.window_step_ns = o.S]
              [] other.n = 3 ->
                   [g_detail EXCEPT !.num_windows = OtherNumWindows(o)]
       /\ other' = [o |-> o, n |-> other.n + 1,
                    th |-> IF other.n = 3 THEN "calc" ELSE "lock",
                    fr |-> NoFrame]
  /\ UNCHANGED <<args, result, executors, pc, i, ret>>

\* Lines 176-179: the grid, before this call's line 182.
AllocateGrid ==
  /\ pc = "entry"
  /\ ~ShapeInvalid
  /\ ~CpuIdTooLarge
  /\ ~WindowSpecInvalid
  /\ result' = ZeroGrid
  /\ pc' = "store1"
  /\ i' = 0
  /\ UNCHANGED <<args, other, g_detail, executors, ret>>

\* Line 182 in this call, one store: the next member of g_detail.
StoreDetail ==
  /\ pc \in {"store1", "store2", "store3", "store4"}
  /\ g_detail' =
       CASE pc = "store1" ->
              [g_detail EXCEPT !.trace_duration_ns = trace_duration_ns]
         [] pc = "store2" ->
              [g_detail EXCEPT !.window_size_ns = window_size_ns]
         [] pc = "store3" ->
              [g_detail EXCEPT !.window_step_ns = window_step_ns]
         [] pc = "store4" ->
              [g_detail EXCEPT !.num_windows = NumWindows]
  /\ pc' = CASE pc = "store1" -> "store2"
              [] pc = "store2" -> "store3"
              [] pc = "store3" -> "store4"
              [] pc = "store4" -> IF 0 < num_cpus THEN "spawn" ELSE "route"
  /\ UNCHANGED <<args, other, result, executors, i, ret>>

\* The values a read of member f of g_detail can give a worker whose
\* locals are fr.
LoadsOf(fr, f) == {g_detail[f], fr.loaded[f]} \ {0}

\* The values a read of member f of g_detail can give worker k.
Loads(k, f) == LoadsOf(executors[k].fr, f)

\* calculate_one_slice has returned.
SliceReturned == [th |-> "lock", fr |-> NoFrame]

\* A worker at position th of calculate_one_slice with the locals fr.
SliceAt(th, fr) == [th |-> th, fr |-> fr]

\* Worker k at the position and with the locals of x.
Put(k, x) == [executors EXCEPT ![k].th = x.th, ![k].fr = x.fr]

\* Lines 39-42 on the task, T read from g_detail.trace_duration_ns.
Line39(fr, task, T) ==
  IF task[1] >= T \/ task[2] <= 0
    THEN SliceReturned
    ELSE SliceAt("c43", [fr EXCEPT !.start_ns = Max(0, task[1]),
                                   !.end_ns = task[2],
                                   !.loaded.trace_duration_ns = T])

\* Line 44.
Line44(fr) ==
  IF fr.start_ns >= fr.end_ns THEN SliceReturned ELSE SliceAt("c49", fr)

\* Line 43, std::min(g_detail.trace_duration_ns, end_ns): a reference to
\* end_ns when end_ns is the smaller, to g_detail.trace_duration_ns
\* otherwise; then line 44 when end_ns keeps its value.
Line43(fr, T) ==
  IF fr.end_ns < T
    THEN Line44([fr EXCEPT !.loaded.trace_duration_ns = T])
    ELSE SliceAt("c43v", [fr EXCEPT !.loaded.trace_duration_ns = T])

\* Line 43, the assignment from the reference to
\* g_detail.trace_duration_ns, and line 44.
Line43Load(fr, T) ==
  Line44([fr EXCEPT !.end_ns = T, !.loaded.trace_duration_ns = T])

\* Lines 49-51.
Line49(fr, W) ==
  IF fr.start_ns < W
    THEN SliceAt("c56", [fr EXCEPT !.i_start = 0,
                                   !.loaded.window_size_ns = W])
    ELSE SliceAt("c53", [fr EXCEPT !.loaded.window_size_ns = W])

\* Line 53, the operand of ceil_div that is evaluated first (the order of
\* the two is unspecified): fr.a keeps its value and fr.b which one it is,
\* 1 for window_size_ns and 2 for window_step_ns.
Line53First(fr, which, v) ==
  SliceAt("c53b",
    IF which = 1
      THEN [fr EXCEPT !.a = v, !.b = 1, !.loaded.window_size_ns = v]
      ELSE [fr EXCEPT !.a = v, !.b = 2, !.loaded.window_step_ns = v])

\* Line 53, the other operand and the call of ceil_div.
Line53Second(fr, v) ==
  SliceAt("c56",
    IF fr.b = 1
      THEN [fr EXCEPT !.i_start = ceil_div(fr.start_ns - fr.a + 1, v),
                      !.a = 0, !.b = 0, !.loaded.window_step_ns = v]
      ELSE [fr EXCEPT !.i_start = ceil_div(fr.start_ns - v + 1, fr.a),
                      !.a = 0, !.b = 0, !.loaded.window_size_ns = v])

\* Lines 56 and 59.
Line56(fr, S) ==
  SliceAt("c60", [fr EXCEPT !.i_end = CDiv(fr.end_ns - 1, S),
                            !.i_start = Max(0, @),
                            !.loaded.window_step_ns = S])

\* Lines 60-64: num_windows is read once in the call.
Line60(fr, num_windows) ==
  LET i_end == Min(fr.i_end, num_windows - 1)
  IN  IF fr.i_start > i_end
        THEN SliceReturned
        ELSE SliceAt("c65", [fr EXCEPT !.i_end = i_end, !.w = fr.i_start])

\* Line 65: fr.a is window_start.
Line65(fr, S) ==
  SliceAt("c66", [fr EXCEPT !.a = fr.w * S, !.loaded.window_step_ns = S])

\* ++w and the test of line 64.
NextWindow(fr) ==
  IF fr.w + 1 > fr.i_end
    THEN SliceReturned
    ELSE SliceAt("c65", [fr EXCEPT !.w = fr.w + 1, !.a = 0, !.b = 0])

\* Lines 66-73: fr.b is the overlap.
Line66(fr, W) ==
  LET window_end == fr.a + W
      overlap_start == Max(fr.start_ns, fr.a)
      overlap_end == Min(fr.end_ns, window_end)
  IN  IF overlap_start >= overlap_end
        THEN NextWindow([fr EXCEPT !.loaded.window_size_ns = W])
        ELSE SliceAt("c75", [fr EXCEPT !.b = overlap_end - overlap_start,
                                       !.loaded.window_size_ns = W])

\* Lines 39-42.
Calc39(k) ==
  /\ Running
  /\ executors[k].th = "calc"
  /\ \E T \in Loads(k, "trace_duration_ns") :
       executors' = Put(k, Line39(executors[k].fr, executors[k].task, T))
  /\ UNCHANGED <<args, other, g_detail, result, pc, i, ret>>

\* Lines 43-44, the comparison in std::min.
Calc43(k) ==
  /\ Running
  /\ executors[k].th = "c43"
  /\ \E T \in Loads(k, "trace_duration_ns") :
       executors' = Put(k, Line43(executors[k].fr, T))
  /\ UNCHANGED <<args, other, g_detail, result, pc, i, ret>>

\* Lines 43-44, the load through the reference.
Calc43Load(k) ==
  /\ Running
  /\ executors[k].th = "c43v"
  /\ \E T \in Loads(k, "trace_duration_ns") :
       executors' = Put(k, Line43Load(executors[k].fr, T))
  /\ UNCHANGED <<args, other, g_detail, result, pc, i, ret>>

\* Lines 49-51.
Calc49(k) ==
  /\ Running
  /\ executors[k].th = "c49"
  /\ \E W \in Loads(k, "window_size_ns") :
       executors' = Put(k, Line49(executors[k].fr, W))
  /\ UNCHANGED <<args, other, g_detail, result, pc, i, ret>>

\* Line 53, the first operand.
Calc53First(k) ==
  /\ Running
  /\ executors[k].th = "c53"
  /\ \/ \E W \in Loads(k, "window_size_ns") :
          executors' = Put(k, Line53First(executors[k].fr, 1, W))
     \/ \E S \in Loads(k, "window_step_ns") :
          executors' = Put(k, Line53First(executors[k].fr, 2, S))
  /\ UNCHANGED <<args, other, g_detail, result, pc, i, ret>>

\* Line 53, the second operand and ceil_div.
Calc53Second(k) ==
  /\ Running
  /\ executors[k].th = "c53b"
  /\ \E v \in Loads(k, IF executors[k].fr.b = 1 THEN "window_step_ns"
                                                ELSE "window_size_ns") :
       executors' = Put(k, Line53Second(executors[k].fr, v))
  /\ UNCHANGED <<args, other, g_detail, result, pc, i, ret>>

\* Lines 56 and 59.
Calc56(k) ==
  /\ Running
  /\ executors[k].th = "c56"
  /\ \E S \in Loads(k, "window_step_ns") :
       executors' = Put(k, Line56(executors[k].fr, S))
  /\ UNCHANGED <<args, other, g_detail, result, pc, i, ret>>

\* Lines 60-64.
Calc60(k) ==
  /\ Running
  /\ executors[k].th = "c60"
  /\ executors' = Put(k, Line60(executors[k].fr, g_detail.num_windows))
  /\ UNCHANGED <<args, other, g_detail, result, pc, i, ret>>

\* Line 65.
Calc65(k) ==
  /\ Running
  /\ executors[k].th = "c65"
  /\ \E S \in Loads(k, "window_step_ns") :
       executors' = Put(k, Line65(executors[k].fr, S))
  /\ UNCHANGED <<args, other, g_detail, result, pc, i, ret>>

\* Lines 66-73.
Calc66(k) ==
  /\ Running
  /\ executors[k].th = "c66"
  /\ \E W \in Loads(k, "window_size_ns") :
       executors' = Put(k, Line66(executors[k].fr, W))
  /\ UNCHANGED <<args, other, g_detail, result, pc, i, ret>>

\* Line 75.  result->at(w) throws std::out_of_range when w is no index of
\* the buffer; the exception leaves the thread function and std::terminate
\* ends the process.
Calc75(k) ==
  /\ Running
  /\ executors[k].th = "c75"
  /\ \E W \in Loads(k, "window_size_ns") :
       LET fr == [executors[k].fr EXCEPT !.loaded.window_size_ns = W]
           row == executors[k].m_result + 1
       IN  IF fr.w + 1 \in DOMAIN result[row]
             THEN /\ result' = [result EXCEPT ![row][fr.w + 1] =
                                  FAdd(@, FMul100(FDivInt(FromInt(fr.b), W)))]
                  /\ executors' = Put(k, NextWindow(fr))
                  /\ pc' = pc
                  /\ i' = i
             ELSE /\ pc' = "crashed"
                  /\ i' = PushedSlices
                  /\ UNCHANGED <<result, executors>>
  /\ UNCHANGED <<args, other, g_detail, ret>>

\* The worker of the second call has thrown at line 75.
OtherThrows == [th |-> "throw", fr |-> NoFrame]

\* One step of calculate_one_slice in the worker of the second call, on
\* its own task: the positions it can be at next.  Its buffer is its own
\* and has OtherNumWindows elements; what it adds to it is not followed.
OtherSliceSteps ==
  LET fr == other.fr
      th == other.th
      T == LoadsOf(fr, "trace_duration_ns")
      W == LoadsOf(fr, "window_size_ns")
      S == LoadsOf(fr, "window_step_ns")
  IN  CASE th = "calc" -> {Line39(fr, <<other.o.s, other.o.e>>, v) : v \in T}
        [] th = "c43" -> {Line43(fr, v) : v \in T}
        [] th = "c43v" -> {Line43Load(fr, v) : v \in T}
        [] th = "c49" -> {Line49(fr, v) : v \in W}
        [] th = "c53" -> {Line53First(fr, 1, v) : v \in W}
                           \cup {Line53First(fr, 2, v) : v \in S}
        [] th = "c53b" -> {Line53Second(fr, v) : v \in IF fr.b = 1 THEN S ELSE W}
        [] th = "c56" -> {Line56(fr, v) : v \in S}
        [] th = "c60" -> {Line60(fr, g_detail.num_windows)}
        [] th = "c65" -> {Line65(fr, v) : v \in S}
        [] th = "c66" -> {Line66(fr, v) : v \in W}
        [] th = "c75" ->
             IF fr.w < OtherNumWindows(other.o)
               THEN {NextWindow([fr EXCEPT !.loaded.window_size_ns = v]) :
                       v \in W}
               ELSE {OtherThrows}

\* Line 131 in the worker of the second call, one read of g_detail.  When
\* result->at(w) throws there, std::terminate ends the process, this call
\* included; when calculate_one_slice returns, the second call is over.
OtherCalc ==
  /\ pc # "crashed"
  /\ other.n = 4
  /\ \E x \in OtherSliceSteps :
       IF x = OtherThrows
         THEN /\ pc' = "crashed"
              /\ i' = PushedSlices
              /\ other' = other
         ELSE /\ other' = IF x = SliceReturned
                            THEN OtherIdle
                            ELSE [other EXCEPT !.th = x.th, !.fr = x.fr]
              /\ UNCHANGED <<pc, i>>
  /\ UNCHANGED <<args, g_detail, result, executors, ret>>

\* Calls that start at most one worker (the race needs one): one slice on
\* CPU 0 at every position, with windows of 1 ns and of the whole trace;
\* wrong shapes and window specs; identifiers out of range.
CallsTwoCalls ==
  {Call(<<a>>, <<b>>, <<0>>, MaxT, W, 1) :
     a \in Times, b \in Times, W \in {1, MaxT}}
    \cup {call \in CallsShapes \cup CallsCpuIds :
            \A k \in DOMAIN call.c : call.c[k] # 1}

InitTwoCalls ==
  /\ \E call \in CallsTwoCalls :
       /\ slice_start_ns = call.s
       /\ slice_end_ns = call.e
       /\ ucpu_id = call.c
       /\ trace_duration_ns = call.T
       /\ window_size_ns = call.W
       /\ window_step_ns = call.S
  /\ g_detail = [trace_duration_ns |-> 0, window_size_ns |-> 0,
                 window_step_ns |-> 0, num_windows |-> 0]
  /\ result = <<>>
  /\ executors = <<>>
  /\ pc = "entry"
  /\ i = 0
  /\ ret = <<>>
  /\ other = OtherIdle

NextTwoCalls ==
  \/ ReturnEmptyShape
  \/ ReturnEmptyCpu
  \/ ReturnEmptySpec
  \/ AllocateGrid
  \/ StoreDetail
  \/ Spawn
  \/ AddTaskPush
  \/ AddTaskNotify
  \/ RouteOutOfRange
  \/ FillTimestamps
  \/ SetDone
  \/ NotifyAll
  \/ Join
  \/ Merge
  \/ \E k \in 1..Len(executors) : WorkerWait(k)
  \/ \E k \in 1..Len(executors) : WorkerSpurious(k)
  \/ \E k \in 1..Len(executors) : WorkerExit(k)
  \/ \E k \in 1..Len(executors) : WorkerTake(k)
  \/ \E k \in 1..Len(executors) : Calc39(k)
  \/ \E k \in 1..Len(executors) : Calc43(k)
  \/ \E k \in 1..Len(executors) : Calc43Load(k)
  \/ \E k \in 1..Len(executors) : Calc49(k)
  \/ \E k \in 1..Len(executors) : Calc53First(k)
  \/ \E k \in 1..Len(executors) : Calc53Second(k)
  \/ \E k \in 1..Len(executors) : Calc56(k)
  \/ \E k \in 1..Len(executors) : Calc60(k)
  \/ \E k \in 1..Len(executors) : Calc65(k)
  \/ \E k \in 1..Len(executors) : Calc66(k)
  \/ \E k \in 1..Len(executors) : Calc75(k)
  \/ OtherCallStore
  \/ OtherCalc

SpecTwoCalls == InitTwoCalls /\ [][NextTwoCalls]_vars

\* The window spec of this call, as line 182 writes it.
OwnSpec ==
  [trace_duration_ns |-> trace_duration_ns,
   window_size_ns |-> window_size_ns,
   window_step_ns |-> window_step_ns,
   num_windows |-> NumWindows]

\* C18: from the start of the first worker of a call until its last worker
\* has exited, g_detail holds the window spec passed to that call, so that
\* every calculate_one_slice of the call reads it, also while another call
\* is in progress.
C18_WorkersReadTheirCallsSpec ==
  (Running /\ WorkersRunning) => g_detail = OwnSpec


\* No slice of the call is on CPU c.
NoSliceOn(c) == \A k \in 1..Len(ucpu_id) : ucpu_id[k] # c

\* C19: for a call with well-formed sequences and a positive window spec,
\* if the largest CPU identifier is above 32 no worker is ever started and
\* the call returns the empty grid; otherwise the grid has max + 1 CPU rows
\* (and the two rows after them), never more than max + 1 workers, one per
\* CPU row once they are all started, and the row of every identifier in
\* 0..max on which the call has no slice is all zero at every moment and in
\* the returned grid.
C19_CpuIdIsRowIndex ==
  (ShapeOk /\ SpecPositive) =>
    IF SeqMax(ucpu_id) > MaxCpuId
      THEN /\ executors = <<>>
           /\ result = <<>>
           /\ pc \in {"entry", "done"}
           /\ Returned => ret = <<>>
      ELSE /\ Len(executors) <= Max(0, SeqMax(ucpu_id) + 1)
           /\ pc \notin {"entry", "spawn"} =>
                Len(executors) = Max(0, SeqMax(ucpu_id) + 1)
           /\ pc # "entry" =>
                /\ Len(result) = SeqMax(ucpu_id) + 3
                /\ \A c \in 0..SeqMax(ucpu_id) :
                     NoSliceOn(c) =>
                       result[c + 1] = [w \in 1..WindowCount |-> FZero]
           /\ Returned => ret = result

\* A call whose slices are all on CPU 1 has returned: row 0 is all zero and
\* row 1 is not.
C19_Witness ==
  /\ Returned
  /\ ShapeOk
  /\ SpecPositive
  /\ SeqMax(ucpu_id) = 1
  /\ NoSliceOn(0)
  /\ ret[1] = [w \in 1..WindowCount |-> FZero]
  /\ \E w \in 1..WindowCount : ret[2][w] # FZero

=============================================================================
